---------------------------- MODULE Spec2Model ----------------------------
(* A model of MojoSpy (src/src/js/MojoSpy.js): spy objects that replace a   *)
(* method slot of a target object with a wrapper, record the calls that    *)
(* land on the wrapper, forward them according to callThru, and put the     *)
(* original method back on retire().                                        *)
EXTENDS Integers, Sequences, FiniteSets, TLC

(* ------------------------------ bounds --------------------------------- *)

\* calls are made only while the callHistory of every recording spy is
\* shorter than this
MaxHistory == 2

(* ------------------------------ values --------------------------------- *)

\* the spy instances a test may create with `new MojoSpy(...)`
Spies == {"A", "B"}

\* property keys of the target object; "" is a falsy key
Keys == {"method", "", "count"}

\* receivers (`this`) a call site may supply
Receivers == {"obj", "ctx"}

\* the argument lists call sites and tests pass: values "a" and "b", and NaN,
\* the value that is not === itself
ArgLists ==
    {<<>>, <<"NaN">>, <<"a", "a">>, <<"a", "b">>, <<"a", "b", "a">>}

Fn(id) == [t |-> "function", id |-> id]
Wrapper(s) == [t |-> "spy", id |-> s]
Num(id) == [t |-> "number", id |-> id]
Null == [t |-> "null", id |-> "null"]

\* the mock a test assigns to the callThru of spy s ("mock" or "mockThru")
Mock(kind, s) == [t |-> kind, id |-> s]

\* the call site, as the caller of a function
Site == [t |-> "site", id |-> "-"]

\* typeof v === 'function'
IsFunction(v) == v.t \in {"function", "spy"}

\* JavaScript truthiness of a property key
TruthyKey(k) == k # ""

\* JavaScript truthiness of a slot value
TruthyVal(v) == v.t # "null"

\* a !== b
StrictNotEqual(a, b) == a # b \/ a = "NaN"

\* values spy.callThru takes: false, true, a mock, a mock that calls spy.method
CallThruVals == {"false", "true", "mock", "mockThru"}

\* what a forwarded function may do to the spy that forwarded to it, while it
\* runs: nothing, spy.off(), spy.on(), spy.clear(), spy.reset(),
\* spy.callThru = true, spy.callThru = false
Controls == {"none", "off", "on", "clear", "reset", "true", "false"}

(* ------------------------------ state ---------------------------------- *)

VARIABLES
    obj,      \* the target object: key -> value
    spies,    \* the spy objects: instance -> fields
    trace,    \* the functions entered during the last operation, in order
    threw,    \* whether the last operation threw
    lastOp,   \* the last operation, its inputs and its result
    returned, \* what the last call returned to its call site
    original, \* per spy, the value the slot held just before construction
    expected, \* per spy, the argument lists of the calls it intercepted while
              \* recording was on, since its last clear() or reset()
    retired   \* the spies retire() was called on, in the order of their
              \* first retire()

vars == <<obj, spies, trace, threw, lastOp, returned, original, expected,
          retired>>

\* the fields of a spy object that does not exist yet
Unborn ==
    [constructed |-> FALSE, methodName |-> "method", method |-> Null,
     closure |-> Null, isRecording |-> FALSE, callThru |-> "false",
     callHistory |-> <<>>]

Op(name, s, key, this, args, ret) ==
    [op |-> name, spy |-> s, key |-> key, this |-> this, args |-> args,
     ret |-> ret, fails |-> FALSE, ctl |-> "none", rec |-> FALSE,
     mode |-> "-"]

Init ==
    /\ obj = [k \in Keys |->
                CASE k = "method" -> Fn("f")
                  [] k = "" -> Fn("g")
                  [] OTHER -> Num("42")]
    /\ spies = [s \in Spies |-> Unborn]
    /\ trace = <<>>
    /\ threw = FALSE
    /\ lastOp = Op("init", "-", "-", "-", <<>>, FALSE)
    /\ returned = "undefined"
    /\ original = [s \in Spies |-> Null]
    /\ expected = [s \in Spies |-> <<>>]
    /\ retired = <<>>

(* --------------------------- the spy's methods ------------------------- *)

\* MojoSpy.prototype.on
on(sp) == [sp EXCEPT !.isRecording = TRUE]

\* an off() that empties the history as well
offAlsoClears(sp) == [sp EXCEPT !.isRecording = FALSE, !.callHistory = <<>>]

\* MojoSpy.prototype.off
off(sp) == [sp EXCEPT !.isRecording = FALSE]

\* a clear() that only pops the newest entry
clearPopsOne(sp) == [sp EXCEPT !.callHistory = SubSeq(@, 1, Len(@) - 1)]

\* MojoSpy.prototype.clear
clear(sp) == [sp EXCEPT !.callHistory = <<>>]

\* a reset() that forgets to block call-throughs
resetKeepsCallThru(sp) == clear(on(sp))

\* a reset() that also drops this.method
resetDropsMethod(sp) ==
    clear([on(sp) EXCEPT !.callThru = "false", !.method = Null])

\* MojoSpy.prototype.reset
reset(sp) == clear([on(sp) EXCEPT !.callThru = "false"])

\* a slice that starts at index 1 and so drops the first argument
sliceFromOne(arguments) == [i \in 1..(Len(arguments) - 1) |-> arguments[i + 1]]

\* Array.prototype.slice.call(arguments)
slice(arguments) == [i \in 1..Len(arguments) |-> arguments[i]]

\* a callback that compares the expected arguments only, without the length test
MatchesPrefix(callArgs, args) ==
    /\ Len(callArgs) >= Len(args)
    /\ \A i \in 1..Len(args) : ~StrictNotEqual(callArgs[i], args[i])

\* the callback of callHistory.some(...) in wasCalled
Matches(callArgs, args) ==
    /\ Len(callArgs) = Len(args)
    /\ \A i \in 1..Len(args) : ~StrictNotEqual(callArgs[i], args[i])

\* MojoSpy.prototype.wasCalled
wasCalled(sp, args) ==
    IF Len(args) # 0
    THEN \E n \in 1..Len(sp.callHistory) : Matches(sp.callHistory[n], args)
    ELSE Len(sp.callHistory) > 0

\* the guard of retire: this.object && this.methodName && this.method
IsSpying(sp) == TruthyKey(sp.methodName) /\ TruthyVal(sp.method)

\* a retire() whose guard does not test this.method
retireUnguarded(s, W) ==
    LET sp == W.spies[s] IN
    IF TruthyKey(sp.methodName)
    THEN [W EXCEPT !.obj[sp.methodName] = sp.method,
                   !.spies[s].method = Null]
    ELSE W

\* MojoSpy.prototype.retire, on world W = [obj, spies, trace, threw, ...]
retire(s, W) ==
    LET sp == W.spies[s] IN
    IF IsSpying(sp)
    THEN [W EXCEPT !.obj[sp.methodName] = sp.method,
                   !.spies[s].method = Null]
    ELSE W

\* a constructor that installs the wrapper before it tests the member
constructInstallsFirst(s, methodName, W) ==
    LET method == W.obj[methodName]
        W1 == [W EXCEPT !.obj[methodName] = Wrapper(s)]
    IN  IF ~IsFunction(method)
        THEN [W1 EXCEPT !.threw = TRUE]
        ELSE [W1 EXCEPT !.spies[s] = reset([@ EXCEPT
                            !.constructed = TRUE,
                            !.methodName = methodName,
                            !.method = method,
                            !.closure = method])]

\* a constructor that reads this.method back from the slot after installing
constructStoresWrapper(s, methodName, W) ==
    LET method == W.obj[methodName] IN
    IF ~IsFunction(method)
    THEN [W EXCEPT !.threw = TRUE]
    ELSE [W EXCEPT !.obj[methodName] = Wrapper(s),
                   !.spies[s] = reset([@ EXCEPT
                       !.constructed = TRUE,
                       !.methodName = methodName,
                       !.method = Wrapper(s),
                       !.closure = method])]

\* function MojoSpy(object, methodName), for the new instance s
construct(s, methodName, W) ==
    LET method == W.obj[methodName] IN
    IF ~IsFunction(method)
    THEN [W EXCEPT !.threw = TRUE]
    ELSE [W EXCEPT !.obj[methodName] = Wrapper(s),
                   !.spies[s] = reset([@ EXCEPT
                       !.constructed = TRUE,
                       !.methodName = methodName,
                       !.method = method,
                       !.closure = method])]

(* ------------------------------ calls ---------------------------------- *)

\* function fn entered, called by `by` with receiver `this` and arguments args
Event(fn, by, this, args) ==
    [fn |-> fn, by |-> by, this |-> this, args |-> args]

RECURSIVE Invoke(_, _, _, _, _)
RECURSIVE spy(_, _, _, _)

\* a push that does not test isRecording
RecordAlways(sp, args) == [sp EXCEPT !.callHistory = Append(@, args)]

\* if (self.isRecording) { self.callHistory.push(args); }
Record(sp, args) ==
    IF sp.isRecording
    THEN [sp EXCEPT !.callHistory = Append(@, args)]
    ELSE sp

\* a choice that forgets the mock and always takes the original
TargetIgnoresMock(s, sp) == sp.closure

\* typeof self.callThru === 'function' ? self.callThru : method
Target(s, sp) ==
    IF sp.callThru \in {"mock", "mockThru"}
    THEN Mock(sp.callThru, s)
    ELSE sp.closure

\* a test that forwards whatever callThru is
ForwardsAlways(sp) == TRUE

\* if (self.callThru)
Forwards(sp) == sp.callThru # "false"

\* a wrapper that hands the result of the forwarded call back
spyReturnsForwarded(W) == W

\* function spy() has no return statement: the call site gets undefined
spyReturn(W) == [W EXCEPT !.ret = "undefined"]

\* a wrapper that forwards with the spy object as the receiver
spyWrongThis(s, this, arguments, W) ==
    LET args == slice(arguments)
        W1 == [W EXCEPT !.spies[s] = Record(@, args)]
        sp == W1.spies[s]
    IN  IF Forwards(sp)
        THEN Invoke(Target(s, sp), Wrapper(s), "spy", args, W1)
        ELSE W1

\* a wrapper that forwards first and pushes the arguments afterwards
spyRecordsAfter(s, this, arguments, W) ==
    LET args == slice(arguments)
        sp == W.spies[s]
        W1 == IF Forwards(sp)
              THEN Invoke(Target(s, sp), Wrapper(s), this, args, W)
              ELSE W
    IN  IF W1.threw THEN W1
        ELSE spyReturn([W1 EXCEPT !.spies[s] = Record(@, args)])

\* a wrapper that calls the mock and then the original as well
spyForwardsBoth(s, this, arguments, W) ==
    LET args == slice(arguments)
        W1 == [W EXCEPT !.spies[s] = Record(@, args)]
        sp == W1.spies[s]
        W2 == IF Forwards(sp) /\ Target(s, sp) # sp.closure
              THEN Invoke(Target(s, sp), Wrapper(s), this, args, W1)
              ELSE W1
    IN  IF W2.threw THEN W2
        ELSE spyReturn(IF Forwards(sp)
                       THEN Invoke(sp.closure, Wrapper(s), this, args, W2)
                       ELSE W2)

\* function spy() of the constructor, for spy instance s
spy(s, this, arguments, W) ==
    LET args == slice(arguments)
        W1 == [W EXCEPT !.spies[s] = Record(@, args)]
        sp == W1.spies[s]
    IN  IF Forwards(sp)
        THEN spyReturn(Invoke(Target(s, sp), Wrapper(s), this, args, W1))
        ELSE spyReturn(W1)

\* the control operation ctl run on spy s from inside a forwarded function
Control(ctl, s, W) ==
    CASE ctl = "off" -> [W EXCEPT !.spies[s] = off(@)]
      [] ctl = "on" -> [W EXCEPT !.spies[s] = on(@)]
      [] ctl = "clear" -> [W EXCEPT !.spies[s] = clear(@)]
      [] ctl = "reset" -> [W EXCEPT !.spies[s] = reset(@)]
      [] ctl = "true" -> [W EXCEPT !.spies[s].callThru = "true"]
      [] ctl = "false" -> [W EXCEPT !.spies[s].callThru = "false"]
      [] OTHER -> W

\* the body of a function that is not a wrapper, entered from `by`: when a
\* spy forwarded to it, it may run a control operation on that spy; then it
\* throws or returns its value
Body(by, W) ==
    LET W1 == IF by.t \in {"spy", "mockThru"}
              THEN Control(W.ctl, by.id, W)
              ELSE W
    IN  IF W.fails
        THEN [W1 EXCEPT !.threw = TRUE]
        ELSE [W1 EXCEPT !.ret = "value"]

\* fn.apply(this, args) run by `by`, for any value fn
Invoke(fn, by, this, args, W) ==
    LET W1 == [W EXCEPT !.trace = Append(@, Event(fn, by, this, args))] IN
    CASE fn.t = "spy" -> spy(fn.id, this, args, W1)
      [] fn.t = "function" -> Body(by, W1)
      [] fn.t = "mock" -> Body(by, W1)
      [] fn.t = "mockThru" ->
            \* spy.method.apply(this, Array.prototype.slice.call(arguments))
            \* the mock has no return statement either
            [Invoke(W1.spies[fn.id].method, fn, this, slice(args), W1)
                EXCEPT !.ret = "undefined"]
      [] OTHER -> [W EXCEPT !.threw = TRUE]

(* ------------------------------ actions -------------------------------- *)

World ==
    [obj |-> obj, spies |-> spies, trace |-> <<>>, threw |-> FALSE,
     ret |-> "undefined", fails |-> FALSE, ctl |-> "none"]

Set(W, op) ==
    /\ obj' = W.obj
    /\ spies' = W.spies
    /\ trace' = W.trace
    /\ threw' = W.threw
    /\ returned' = W.ret
    /\ lastOp' = op

\* new MojoSpy(obj, methodName), giving instance s
MojoSpy(s, methodName) ==
    /\ ~spies[s].constructed
    /\ Set(construct(s, methodName, World),
           Op("MojoSpy", s, methodName, "-", <<>>, FALSE))
    /\ original' = IF threw' THEN original
                   ELSE [original EXCEPT ![s] = obj[methodName]]
    /\ UNCHANGED <<expected, retired>>

\* the argument lists the wrapper of s was entered with, in tr
Intercepted(s, tr) ==
    LET idx == {i \in 1..Len(tr) : tr[i].fn = Wrapper(s)}
        RECURSIVE Pick(_)
        Pick(i) == IF i > Len(tr) THEN <<>>
                   ELSE (IF i \in idx THEN <<tr[i].args>> ELSE <<>>) \o Pick(i + 1)
    IN  Pick(1)

\* whether a function that spy s forwarded to was entered, in tr
ForwardedTo(s, tr) ==
    \E i \in 1..Len(tr) :
        /\ tr[i].by.t \in {"spy", "mockThru"}
        /\ tr[i].by.id = s
        /\ tr[i].fn.t \in {"function", "mock"}

\* the spy whose wrapper is in slot key, "-" when the slot holds no wrapper
SpyAt(key) == IF obj[key].t = "spy" THEN obj[key].id ELSE "-"

\* a call site runs obj[key].apply(this, args); the functions it reaches
\* throw when fails, and run control operation ctl on the spy that forwarded
Call(key, this, args, fails, ctl) ==
    /\ IsFunction(obj[key])
    /\ \A s \in Spies :
          spies[s].isRecording => Len(spies[s].callHistory) < MaxHistory
    /\ Set(Invoke(obj[key], Site, this, args,
                  [World EXCEPT !.fails = fails, !.ctl = ctl]),
           [Op("call", "-", key, this, args, FALSE) EXCEPT
               !.fails = fails,
               !.ctl = ctl,
               !.rec = SpyAt(key) # "-" /\ spies[SpyAt(key)].isRecording,
               !.mode = IF SpyAt(key) # "-"
                        THEN spies[SpyAt(key)].callThru ELSE "-"])
    /\ expected' = [s \in Spies |->
                      IF ctl \in {"clear", "reset"} /\ ForwardedTo(s, trace')
                      THEN <<>>
                      ELSE IF spies[s].isRecording
                      THEN expected[s] \o Intercepted(s, trace')
                      ELSE expected[s]]
    /\ UNCHANGED <<original, retired>>

\* other code assigns function h to slot key, once a spy on it had retire()
\* called and the slot holds no wrapper
Assign(key) ==
    /\ \E i \in 1..Len(retired) : spies[retired[i]].methodName = key
    /\ obj[key].t # "spy"
    /\ Set([World EXCEPT !.obj[key] = Fn("h")],
           Op("assign", "-", key, "-", <<>>, FALSE))
    /\ UNCHANGED <<original, expected, retired>>

Live(s) == spies[s].constructed

On(s) ==
    /\ Live(s)
    /\ Set([World EXCEPT !.spies[s] = on(@)],
           Op("on", s, "-", "-", <<>>, FALSE))
    /\ UNCHANGED <<original, expected, retired>>

Off(s) ==
    /\ Live(s)
    /\ Set([World EXCEPT !.spies[s] = off(@)],
           Op("off", s, "-", "-", <<>>, FALSE))
    /\ UNCHANGED <<original, expected, retired>>

Clear(s) ==
    /\ Live(s)
    /\ Set([World EXCEPT !.spies[s] = clear(@)],
           Op("clear", s, "-", "-", <<>>, FALSE))
    /\ expected' = [expected EXCEPT ![s] = <<>>]
    /\ UNCHANGED <<original, retired>>

Reset(s) ==
    /\ Live(s)
    /\ Set([World EXCEPT !.spies[s] = reset(@)],
           Op("reset", s, "-", "-", <<>>, FALSE))
    /\ expected' = [expected EXCEPT ![s] = <<>>]
    /\ UNCHANGED <<original, retired>>

\* spy.callThru = v
SetCallThru(s, v) ==
    /\ Live(s)
    /\ Set([World EXCEPT !.spies[s].callThru = v],
           Op("callThru", s, "-", "-", <<>>, FALSE))
    /\ UNCHANGED <<original, expected, retired>>

Retire(s) ==
    /\ Live(s)
    /\ Set(retire(s, World), Op("retire", s, "-", "-", <<>>, FALSE))
    /\ retired' = IF \E i \in 1..Len(retired) : retired[i] = s
                  THEN retired ELSE Append(retired, s)
    /\ UNCHANGED <<original, expected>>

WasCalled(s, args) ==
    /\ Live(s)
    /\ Set(World, Op("wasCalled", s, "-", "-", args, wasCalled(spies[s], args)))
    /\ UNCHANGED <<original, expected, retired>>

\* the operations a test can run on spy instance s
SpyOp(s) ==
    \/ \E k \in Keys : MojoSpy(s, k)
    \/ On(s)
    \/ Off(s)
    \/ Clear(s)
    \/ Reset(s)
    \/ \E v \in CallThruVals : SetCallThru(s, v)
    \/ Retire(s)
    \/ \E a \in ArgLists : WasCalled(s, a)

\* a test with one spy instance
Next ==
    \/ SpyOp("A")
    \/ \E k \in Keys, r \in Receivers, a \in ArgLists, f \in BOOLEAN :
          Call(k, r, a, f, "none")
    \/ \E k \in Keys : Assign(k)

Spec == Init /\ [][Next]_vars

\* a test with one spy instance whose forwarded functions run control
\* operations on the spy while they are being called
NextReentrant ==
    \/ SpyOp("A")
    \/ \E a \in ArgLists, c \in Controls : Call("method", "obj", a, FALSE, c)

SpecReentrant == Init /\ [][NextReentrant]_vars

\* the members two spies are stacked on, and the calls made on them
StackedKeys == {"method", ""}
StackedArgs == {<<>>, <<"a", "b">>}

\* a test with two spy instances, which may spy on the same member
NextStacked ==
    \/ \E s \in Spies, k \in StackedKeys : MojoSpy(s, k)
    \/ \E s \in Spies : On(s)
    \/ \E s \in Spies : Off(s)
    \/ \E s \in Spies, v \in {"false", "true"} : SetCallThru(s, v)
    \/ \E s \in Spies : Retire(s)
    \/ \E k \in StackedKeys, a \in StackedArgs : Call(k, "obj", a, FALSE, "none")

SpecStacked == Init /\ [][NextStacked]_vars

(* ------------------------------ claims --------------------------------- *)

\* the spy instance the last operation was run on
Last == spies[lastOp.spy]

\* the last operation was a call that entered the wrapper of s first
CalledInto(s) ==
    /\ lastOp.op = "call"
    /\ Len(trace) > 0
    /\ trace[1].fn = Wrapper(s)

\* C1: callHistory holds exactly the argument lists of the intercepted calls
\* made while recording was on since the last clear()/reset(), oldest first,
\* each entry element for element what the call site passed; no other
\* operation removes, reorders or alters an entry.
C1_HistoryIsTheRecordedCalls ==
    \A s \in Spies : spies[s].callHistory = expected[s]

\* two different calls are in the history, in the order they were made,
\* and the newest call of all was made with recording off
C1_Witness ==
    /\ CalledInto("A")
    /\ ~spies["A"].isRecording
    /\ spies["A"].callHistory = <<<<"a", "b", "a">>, <<>>>>
    /\ lastOp.args = <<"a", "a">>

\* C2: after retire() the target's member is the identical callable that was
\* there before the spy was constructed, for every member name on which
\* construction succeeded, falsy names included.
C2_RetireRestoresOriginal ==
    lastOp.op = "retire" /\ obj[Last.methodName] # Fn("h") =>
        obj[Last.methodName] = original[lastOp.spy]

\* C3: constructing a spy on a function member replaces that member with a
\* different callable, stores the original in spy.method, changes no other
\* member, and leaves the spy recording, silent, with an empty history.
C3_ConstructInstalls ==
    [][lastOp'.op = "MojoSpy" /\ IsFunction(obj[lastOp'.key]) =>
        LET k == lastOp'.key
            sp == spies'[lastOp'.spy]
        IN  /\ ~threw'
            /\ IsFunction(obj'[k])
            /\ obj'[k] # obj[k]
            /\ sp.method = obj[k]
            /\ \A j \in Keys \ {k} : obj'[j] = obj[j]
            /\ sp.isRecording = TRUE
            /\ sp.callThru = "false"
            /\ sp.callHistory = <<>>
            /\ \A s \in Spies \ {lastOp'.spy} : spies'[s] = spies[s]]_vars

\* a spy was constructed on the member named by the empty string
C3_Witness ==
    /\ lastOp.op = "MojoSpy"
    /\ lastOp.key = ""
    /\ ~threw
    /\ obj[""] = Wrapper("A")
    /\ Last.method = Fn("g")

\* C4: constructing a spy on a member that is not a function fails with an
\* error before any mutation: every member of the target is as it was and
\* no wrapper is installed.
C4_ConstructRejectsNonFunction ==
    [][lastOp'.op = "MojoSpy" /\ ~IsFunction(obj[lastOp'.key]) =>
        /\ threw'
        /\ obj' = obj
        /\ spies' = spies
        /\ \A k \in Keys : obj'[k] # Wrapper(lastOp'.spy)]_vars

\* construction on the number member threw
C4_Witness ==
    /\ lastOp.op = "MojoSpy"
    /\ lastOp.key = "count"
    /\ threw
    /\ obj["count"] = Num("42")
    /\ ~spies["A"].constructed

\* the operation just run left spy s freshly constructed, reset or cleared
JustEmptied ==
    \/ lastOp.op \in {"reset", "clear"}
    \/ lastOp.op = "MojoSpy" /\ ~threw

\* C5 as stated: wasCalled() is false right after construction, reset() and
\* clear(), and true after any single call to the intercepted member, from
\* any state the control operations reach.
C5_WasCalledAfterAnyCall ==
    /\ JustEmptied => ~wasCalled(Last, <<>>)
    /\ \A s \in Spies : CalledInto(s) => wasCalled(spies[s], <<>>)

\* C5 amended: wasCalled() is false right after construction, reset() and
\* clear(), and true after any single call to the intercepted member made
\* while recording is on, a call with zero arguments included.
C5_WasCalledAfterRecordedCall ==
    /\ JustEmptied => ~wasCalled(Last, <<>>)
    /\ \A s \in Spies :
          CalledInto(s) /\ spies[s].isRecording => wasCalled(spies[s], <<>>)

\* a call made with no arguments on an empty history was recorded
C5_Witness ==
    /\ CalledInto("A")
    /\ spies["A"].isRecording
    /\ lastOp.args = <<>>
    /\ spies["A"].callHistory = <<<<>>>>
    /\ wasCalled(spies["A"], <<>>)

\* a === b
StrictlyEqual(a, b) == a = b /\ a # "NaN" /\ b # "NaN"

\* C6: for a non-empty expected argument list e, wasCalled(e...) returns true
\* if and only if some entry of callHistory has the length of e and is
\* strictly equal to e at every position; other entries are skipped.
C6_WasCalledWithArgs ==
    lastOp.op = "wasCalled" /\ Len(lastOp.args) > 0 =>
        LET e == lastOp.args
            h == Last.callHistory
        IN  lastOp.ret <=>
                \E n \in DOMAIN h :
                    /\ DOMAIN h[n] = DOMAIN e
                    /\ \A i \in DOMAIN e : StrictlyEqual(h[n][i], e[i])

\* wasCalled("a", "b") returned true on a history whose first entry is longer
\* than the expected list and whose second entry matches it
C6_Witness ==
    /\ lastOp.op = "wasCalled"
    /\ lastOp.args = <<"a", "b">>
    /\ lastOp.ret = TRUE
    /\ Last.callHistory = <<<<"a", "b", "a">>, <<"a", "b">>>>

\* C7: with recording off, calls to the intercepted member leave callHistory
\* unchanged; on() and off() themselves leave it unchanged; with recording
\* (back) on, the next intercepted call is appended after the entries that
\* were there.
C7_OffKeepsHistoryOnResumes ==
    [][\A s \in Spies :
        LET h == spies[s].callHistory
            h2 == spies'[s].callHistory
        IN  /\ lastOp'.op = "call" /\ ~spies[s].isRecording => h2 = h
            /\ lastOp'.op \in {"on", "off"} => h2 = h
            /\ lastOp'.op = "off" /\ lastOp'.spy = s => ~spies'[s].isRecording
            /\ lastOp'.op = "on" /\ lastOp'.spy = s => spies'[s].isRecording
            /\ lastOp'.op = "call" /\ obj[lastOp'.key] = Wrapper(s)
                    /\ spies[s].isRecording
                => h2 = Append(h, lastOp'.args)]_vars

\* a call made with recording off left a non-empty history as it was
C7_Witness ==
    /\ CalledInto("A")
    /\ ~spies["A"].isRecording
    /\ lastOp.args = <<"a", "a">>
    /\ spies["A"].callHistory = <<<<"a", "b">>>>

\* the positions of trace at which the wrapper of s called a function
ForwardedBy(s) == {i \in 1..Len(trace) : trace[i].by = Wrapper(s)}

\* C8: in PassThrough mode every call to the intercepted member invokes the
\* original implementation exactly once, with the call site's receiver and
\* the identical arguments, and invokes no substitute.
C8_PassThroughCallsOriginalOnce ==
    \A s \in Spies :
        CalledInto(s) /\ spies[s].callThru = "true" =>
            /\ ForwardedBy(s) = {2}
            /\ trace[2] = Event(original[s], Wrapper(s), lastOp.this, lastOp.args)
            /\ {i \in 1..Len(trace) : trace[i].fn = original[s]} = {2}
            /\ \A i \in 1..Len(trace) : trace[i].fn.t \notin {"mock", "mockThru"}
            /\ threw = lastOp.fails

\* a pass-through call with receiver ctx and two arguments reached the original
C8_Witness ==
    /\ CalledInto("A")
    /\ spies["A"].callThru = "true"
    /\ lastOp.this = "ctx"
    /\ lastOp.args = <<"a", "b">>
    /\ trace[2].fn = Fn("f")

\* C9: in Substitute mode every call to the intercepted member invokes the
\* substitute exactly once with the call site's receiver and the identical
\* arguments, and the wrapper never invokes the original: the original runs
\* only if the substitute invokes it.
C9_SubstituteCalledOnceInstead ==
    \A s \in Spies :
        CalledInto(s) /\ spies[s].callThru \in {"mock", "mockThru"} =>
            LET f == Mock(spies[s].callThru, s) IN
            /\ ForwardedBy(s) = {2}
            /\ trace[2] = Event(f, Wrapper(s), lastOp.this, lastOp.args)
            /\ {i \in 1..Len(trace) : trace[i].fn = f} = {2}
            /\ \A i \in 1..Len(trace) :
                  trace[i].fn = original[s] => trace[i].by = f
            /\ spies[s].callThru = "mock" =>
                  \A i \in 1..Len(trace) : trace[i].fn # original[s]

\* a call with receiver ctx ran a substitute that itself invoked the original
C9_Witness ==
    /\ CalledInto("A")
    /\ spies["A"].callThru = "mockThru"
    /\ lastOp.this = "ctx"
    /\ lastOp.args = <<"a", "b">>
    /\ Len(trace) = 3
    /\ trace[3] = Event(Fn("f"), Mock("mockThru", "A"), "ctx", <<"a", "b">>)

\* C10: in Silent mode a call to the intercepted member invokes neither the
\* original nor any substitute; its only effect is the history append when
\* recording is on.
C10_SilentCallsNothing ==
    [][\A s \in Spies :
        lastOp'.op = "call" /\ obj[lastOp'.key] = Wrapper(s)
                /\ spies[s].callThru = "false" =>
            /\ trace' = <<Event(Wrapper(s), Site, lastOp'.this, lastOp'.args)>>
            /\ ~threw'
            /\ obj' = obj
            /\ spies' = [spies EXCEPT ![s].callHistory =
                            IF spies[s].isRecording
                            THEN Append(@, lastOp'.args) ELSE @]]_vars

\* a silent, recorded call entered the wrapper and nothing else
C10_Witness ==
    /\ CalledInto("A")
    /\ spies["A"].callThru = "false"
    /\ spies["A"].isRecording
    /\ Len(trace) = 1
    /\ spies["A"].callHistory = <<<<"a", "a">>, <<"NaN">>>>

\* retire() has been called on spy s
Retired(s) == \E i \in 1..Len(retired) : retired[i] = s

\* C11: after retire(), calls made through the target's member are never
\* appended to the spy's callHistory, whatever the recording flag and the
\* forward mode are, and they run the original implementation directly.
C11_RetiredSpyRecordsNothing ==
    \A s \in Spies :
        Retired(s) /\ lastOp.op = "call" /\ lastOp.key = spies[s].methodName
                /\ obj[lastOp.key] # Fn("h") =>
            /\ \A i \in 1..Len(trace) : trace[i].fn # Wrapper(s)
            /\ trace = <<Event(original[s], Site, lastOp.this, lastOp.args)>>

\* C12 as stated: spy.method keeps the value set at construction in every
\* state reachable afterwards, retire() included.
C12_MethodNeverChanges ==
    \A s \in Spies : spies[s].constructed => spies[s].method = original[s]

\* C12 amended: spy.method is set at construction to the member's old value
\* and keeps it through every intercepted call and every control operation
\* but one: a retire() that restores the member sets spy.method to null.
\* The reference the wrapper captured is never changed.
C12_MethodChangesOnlyByRetire ==
    [][\A s \in Spies :
        LET restores == /\ lastOp'.op = "retire"
                        /\ lastOp'.spy = s
                        /\ TruthyKey(spies[s].methodName)
                        /\ spies[s].method # Null
        IN  /\ lastOp'.op = "MojoSpy" /\ lastOp'.spy = s /\ ~threw' =>
                /\ spies'[s].method = obj[lastOp'.key]
                /\ spies'[s].closure = obj[lastOp'.key]
            /\ spies[s].constructed =>
                /\ spies'[s].closure = spies[s].closure
                /\ IF restores
                   THEN spies'[s].method = Null
                   ELSE spies'[s].method = spies[s].method]_vars

\* a retire() restored the member and left spy.method null
C12_Witness ==
    /\ lastOp.op = "retire"
    /\ Last.method = Null
    /\ Last.closure = Fn("f")
    /\ obj["method"] = Fn("f")

\* the operations of a spy object other than calls to the member
OwnOps == {"on", "off", "clear", "reset", "callThru", "retire", "wasCalled"}

\* C13: retire() on a spy retire() was already called on is a no-op: it
\* raises no error and does not write the target's member again, so a value
\* assigned to the member after the first retire() survives; and none of the
\* spy's operations puts its wrapper back into a member.
C13_SecondRetireIsNoOp ==
    [][\A s \in Spies :
        Retired(s) /\ lastOp'.spy = s =>
            /\ lastOp'.op = "retire" =>
                  obj' = obj /\ spies' = spies /\ ~threw'
            /\ lastOp'.op \in OwnOps =>
                  \A k \in Keys : obj[k] # Wrapper(s) => obj'[k] # Wrapper(s)]_vars

\* a retire() ran after other code had assigned h to the retired spy's member
C13_Witness ==
    /\ lastOp.op = "retire"
    /\ lastOp.spy = "A"
    /\ spies["A"].method = Null
    /\ obj["method"] = Fn("h")

\* C14: from any spy state reset() leaves the spy recording, silent and with
\* an empty history, and changes neither the target's member nor spy.method:
\* it neither retires an installed spy nor re-installs a retired one.
C14_ResetRestoresDefaults ==
    [][lastOp'.op = "reset" =>
        LET s == lastOp'.spy IN
        /\ spies'[s] = [spies[s] EXCEPT !.isRecording = TRUE,
                                        !.callThru = "false",
                                        !.callHistory = <<>>]
        /\ \A u \in Spies \ {s} : spies'[u] = spies[u]
        /\ obj' = obj
        /\ ~threw']_vars

\* reset() ran on a retired spy, which stayed retired
C14_Witness ==
    /\ lastOp.op = "reset"
    /\ Retired("A")
    /\ Last.method = Null
    /\ Last.isRecording
    /\ Last.callThru = "false"
    /\ obj["method"] = Fn("f")

\* C15: when callThru is a substitute that invokes spy.method with its own
\* receiver and arguments, each call to the intercepted member of an
\* installed spy runs the substitute once and the original once, both with
\* the argument list of that call, and the call is recorded once.
C15_MockCallsOriginal ==
    [][\A s \in Spies :
        lastOp'.op = "call" /\ obj[lastOp'.key] = Wrapper(s)
                /\ spies[s].callThru = "mockThru" =>
            LET this == lastOp'.this
                args == lastOp'.args
                f == Mock("mockThru", s)
            IN  /\ trace' = <<Event(Wrapper(s), Site, this, args),
                              Event(f, Wrapper(s), this, args),
                              Event(original[s], f, this, args)>>
                /\ spies'[s].callHistory =
                      IF spies[s].isRecording
                      THEN Append(spies[s].callHistory, args)
                      ELSE spies[s].callHistory]_vars

\* a recorded call with three arguments ran the substitute and then g
C15_Witness ==
    /\ CalledInto("A")
    /\ spies["A"].callThru = "mockThru"
    /\ lastOp.key = ""
    /\ lastOp.args = <<"a", "b", "a">>
    /\ spies["A"].callHistory = <<<<"a", "b", "a">>>>
    /\ Len(trace) = 3
    /\ trace[3].fn = Fn("g")
    /\ ~threw

\* C16: each control operation changes only its own field: on()/off() only
\* isRecording, clear() only callHistory, an assignment to callThru only the
\* forward mode, wasCalled(...) nothing; none changes the target's member or
\* spy.method.
C16_ControlOpsFrame ==
    [][lastOp'.op \in {"on", "off", "clear", "callThru", "wasCalled"} =>
        LET s == lastOp'.spy
            op == lastOp'.op
        IN  /\ obj' = obj
            /\ ~threw'
            /\ op = "on" => spies' = [spies EXCEPT ![s].isRecording = TRUE]
            /\ op = "off" => spies' = [spies EXCEPT ![s].isRecording = FALSE]
            /\ op = "clear" => spies' = [spies EXCEPT ![s].callHistory = <<>>]
            /\ op = "callThru" =>
                  \E v \in CallThruVals :
                      spies' = [spies EXCEPT ![s].callThru = v]
            /\ op = "wasCalled" => spies' = spies]_vars

\* off() ran on a spy with two recorded calls and a mock, and kept both
C16_Witness ==
    /\ lastOp.op = "off"
    /\ ~Last.isRecording
    /\ Last.callThru = "mock"
    /\ Len(Last.callHistory) = 2

\* C17: when the original or the substitute throws during an intercepted
\* call, the wrapper does not catch it: the error reaches the call site, and
\* the spy's state is what it would be had the function returned: the call
\* is recorded once when recording was on, and isRecording, the forward mode
\* and the installed wrapper are unchanged.
C17_ThrowPassesThrough ==
    [][\A s \in Spies :
        lastOp'.op = "call" /\ lastOp'.fails /\ obj[lastOp'.key] = Wrapper(s)
                /\ spies[s].callThru # "false" =>
            /\ threw'
            /\ obj' = obj
            /\ spies' = [spies EXCEPT ![s].callHistory =
                            IF spies[s].isRecording
                            THEN Append(@, lastOp'.args) ELSE @]]_vars

\* a recorded pass-through call whose original threw
C17_Witness ==
    /\ CalledInto("A")
    /\ lastOp.fails
    /\ threw
    /\ spies["A"].callThru = "true"
    /\ spies["A"].isRecording
    /\ spies["A"].callHistory = <<<<"NaN">>>>
    /\ lastOp.args = <<"NaN">>

\* C19: the wrapper returns undefined to the call site in every forward
\* mode, also in PassThrough mode, where the original's value is discarded.
C19_WrapperReturnsUndefined ==
    \A s \in Spies : CalledInto(s) /\ ~threw => returned = "undefined"

\* a pass-through call reached g, which returned its value, and the call
\* site got undefined
C19_Witness ==
    /\ CalledInto("A")
    /\ spies["A"].callThru = "true"
    /\ trace[2].fn = Fn("g")
    /\ ~threw
    /\ returned = "undefined"

\* the wrapper of s forwarded the last call as callThru value mode demands:
\* to nothing, to the original once, or to the substitute once
DispatchedBy(s, mode, tr) ==
    LET fw == {i \in 1..Len(tr) : tr[i].by = Wrapper(s)} IN
    CASE mode = "false" -> fw = {}
      [] mode = "true" -> fw = {2} /\ tr[2].fn = original[s]
      [] OTHER -> fw = {2} /\ tr[2].fn = Mock(mode, s)

\* C18 as stated: every intercepted call is dispatched to exactly one of
\* nothing, the original, the substitute, by the value callThru had at the
\* dispatch; a change of callThru, isRecording or the history made by the
\* forwarded function while it runs alters neither the dispatch nor the
\* recording of the call in progress.
C18_ReentrantChangeIsLater ==
    \A s \in Spies :
        CalledInto(s) =>
            /\ DispatchedBy(s, lastOp.mode, trace)
            /\ lastOp.rec =>
                  /\ spies[s].callHistory # <<>>
                  /\ spies[s].callHistory[Len(spies[s].callHistory)] = lastOp.args

\* C18 amended: the dispatch is fixed by the value callThru had when the
\* wrapper was entered, and a change of callThru or isRecording made by the
\* forwarded function takes effect for later calls only, the call in
\* progress staying recorded; a clear() or reset() made by the forwarded
\* function empties the history, the entry of the call in progress included.
C18_DispatchFixedAtEntry ==
    [][\A s \in Spies :
        lastOp'.op = "call" /\ obj[lastOp'.key] = Wrapper(s) =>
            LET sp == spies[s]
                ctl == IF sp.callThru # "false" THEN lastOp'.ctl ELSE "none"
                h == IF sp.isRecording
                     THEN Append(sp.callHistory, lastOp'.args)
                     ELSE sp.callHistory
            IN  /\ DispatchedBy(s, sp.callThru, trace')
                /\ spies'[s].callHistory =
                      IF ctl \in {"clear", "reset"} THEN <<>> ELSE h
                /\ spies'[s].isRecording =
                      CASE ctl \in {"on", "reset"} -> TRUE
                        [] ctl = "off" -> FALSE
                        [] OTHER -> sp.isRecording
                /\ spies'[s].callThru =
                      CASE ctl = "true" -> "true"
                        [] ctl \in {"false", "reset"} -> "false"
                        [] OTHER -> sp.callThru
                /\ obj' = obj]_vars

\* a recorded call ran a mock that called spy.clear(): the history is empty
C18_Witness ==
    /\ CalledInto("A")
    /\ lastOp.ctl = "clear"
    /\ lastOp.rec
    /\ lastOp.mode = "mock"
    /\ lastOp.args = <<"a", "b">>
    /\ Len(trace) = 2
    /\ spies["A"].callHistory = <<>>

\* how often the wrapper of s was entered during the last call
Entered(s) == Cardinality({i \in 1..Len(trace) : trace[i].fn = Wrapper(s)})

\* spy B was constructed on the member while the wrapper of A was in it
Stacked ==
    /\ original["B"] = Wrapper("A")
    /\ spies["A"].methodName = spies["B"].methodName

\* C20: with B constructed on top of A on the same member, retiring B and
\* then A leaves in the member the callable that was there before A was
\* constructed; and while both are installed, a call to the member with B in
\* PassThrough mode is recorded once by B and once by A.
C20_StackedSpiesUnwind ==
    /\ Stacked /\ retired = <<"B", "A">> /\ lastOp.op = "retire"
            /\ lastOp.spy = "A" =>
          obj[spies["A"].methodName] = original["A"]
    /\ Stacked /\ CalledInto("B") /\ lastOp.mode = "true" =>
          /\ Entered("B") = 1
          /\ Entered("A") = 1
          /\ \A s \in Spies :
                spies[s].isRecording =>
                    /\ spies[s].callHistory # <<>>
                    /\ spies[s].callHistory[Len(spies[s].callHistory)]
                          = lastOp.args
          /\ \A s \in Spies : spies[s].callHistory = expected[s]

=============================================================================
